---- MODULE Spec2Model ----
(***************************************************************************)
(* A model of the hmq broker runtime (package broker): the acceptor loop   *)
(* with its backoff, the CONNECT/CONNACK handshake, the client registry,   *)
(* the per-connection read loop, the worker pool keyed by client id, the   *)
(* packet dispatcher, the PUBLISH fan-out, and client.Send / client.Close. *)
(*                                                                         *)
(* A connection c (a net.Conn handed out by Accept) and the *client built  *)
(* for it by newClient are named by the same number c: handleConnection    *)
(* builds at most one client per connection.  Durations are milliseconds.  *)
(***************************************************************************)
EXTENDS Integers, Sequences, FiniteSets, TLC

\* ---------------------------------------------------------------- bounds
MaxConns == 3
RuntimeConns == 2
NumSlots == 2
QueueCap == 3
MaxReads == 2
MaxGone == 1
MaxRun == 9
MaxBindRetries == 1
MaxOtherErrs == 2

\* ------------------------------------------------------------- constants
ACCEPT_MIN_SLEEP == 100
ACCEPT_MAX_SLEEP == 10000
Connected == 1
Disconnected == 2

Conns == 1..MaxConns
Slots == 0..(NumSlots - 1)
Ids == 1..MaxConns

\* MQTT CONNACK return codes (paho packets): Accepted, one code standing for
\* every refusal Validate can produce, and ErrRefusedNotAuthorised.
Accepted == "Accepted"
ErrRefusedIDRejected == "ErrRefusedIDRejected"
ErrRefusedNotAuthorised == "ErrRefusedNotAuthorised"
ValidateCodes == {Accepted, ErrRefusedIDRejected}

NoConnect == [id |-> 0, CleanSession |-> FALSE, rc |-> "none"]
Pkt(t, mid, n) == [type |-> t, MessageID |-> mid, Topics |-> n]
NoPkt == Pkt("none", 0, 0)
NoMsg == [client |-> 0, pkt |-> NoPkt, seq |-> 0, key |-> 0, synthetic |-> FALSE]

VARIABLES
    \* acceptor (Broker.StartClientListening)
    lpc,          \* "listen" | "accept"
    tmpDelay,     \* the stored delay; 0 before the listener is bound
    sleeps,       \* history: time.Sleep(tmpDelay) calls since bind / last accepted connection
    bindFails,    \* history: failed net.Listen calls of the bind stage
    otherErrs,    \* history: non-temporary Accept errors
    \* per connection: the goroutine running handleConnection
    hpc,          \* "none" | "connect" | "connack" | "add" | "select" | "eval" | "read" | "done"
    connect,      \* the CONNECT packet handleConnectPacket returned
    found,        \* history: LoadClient found the identifier during the handshake
    herr,         \* the error the handshake returned with, "" if none
    wire,         \* frames written on the connection, in order
    tcp,          \* "open" | "closed": net.Conn closed by the broker
    connCloses,   \* history: conn.Close() calls on the connection
    \* per client (session) object
    status,       \* 0 (no client built yet) | Connected | Disconnected
    sconn,        \* client.conn: "conn" | "nil"
    cancels,      \* calls of cancelFunc; ctx.Done() is closed iff > 0
    publishOnly,  \* client.publishOnly
    capability,   \* the publishOnly flag each client is built with
    mu,           \* client.mu: -1 free, else the slot of the worker holding it
    deletes,      \* history: DeleteClient calls made by Close on this client
    closed,       \* history: Close calls of DISCONNECT handlers of this client that have returned
    \* registry (Broker.clients)
    clients,      \* set of [key, val] entries of the sync.Map
    \* worker pool
    queue,        \* per slot: FIFO of submitted messages
    wpc,          \* per worker: where its goroutine stands ("idle" between thunks)
    wmsg,         \* the Message of the thunk it runs
    wtodo,        \* EachClient: keys of the range not yet visited
    wtarget,      \* the client whose Send / Close it is in
    wframe,       \* the packet Send was called with
    wvia,         \* Close was called from "send" or from ProcessMessage ("msg")
    wseen,        \* history: clients the fan-out callback was called on
    wsent,        \* history: clients Send was invoked on for this message
    wgone,        \* history: clients already deregistered when the fan-out began
    wfan,         \* history of the handler: clients registered when it began (reg), its
                  \* Send calls (calls), the clients whose Send returned an error (failed)
    \* read loop history
    nread,        \* packets read (and submitted) per client, the synthetic DISCONNECT included
    readFailed,   \* the read loop saw a read error
    readsLeft,    \* events the peers will still cause: a packet sent, or going away
    lastStarted,  \* seq of the last message of the client whose handler started
    completed,    \* number of handlers of the client that completed
    crashed,      \* an unrecovered panic ended the process
    scn           \* what the environment does in this run (never changes)

acceptVars == <<lpc, tmpDelay, sleeps, bindFails, otherErrs>>
connVars == <<hpc, connect, found, herr, wire, tcp, connCloses>>
clientVars == <<status, sconn, cancels, publishOnly, capability, mu, deletes, closed>>
workerVars == <<wpc, wmsg, wtodo, wtarget, wframe, wvia, wseen, wsent, wgone, wfan, wfan>>
loopVars == <<nread, readFailed, readsLeft, lastStarted, completed>>
vars == <<acceptVars, connVars, clientVars, clients, queue, workerVars, loopVars, crashed, scn>>

\* ------------------------------------------------------------- registry
\* sync.Map.Store: the entry under the key is replaced.
Store(m, k, v) == {e \in m : e.key # k} \cup {[key |-> k, val |-> v]}
\* sync.Map.Delete
Delete(m, k) == {e \in m : e.key # k}
Keys(m) == {e.key : e \in m}
Vals(m) == {e.val : e \in m}
\* sync.Map.Load, when the key is present
Load(m, k) == (CHOOSE e \in m : e.key = k).val

IdOf(c) == connect[c].id

\* AddClient as it would be on a registry that appends instead of replacing.
AddClientKeepOld(m, c) == m \cup {[key |-> IdOf(c), val |-> c]}

AddClient(m, c) == Store(m, IdOf(c), c)
LoadClient(m, id) == id \in Keys(m)
DeleteClient(m, c) == Delete(m, IdOf(c))

InRegistry(c) == c \in Vals(clients)

\* ------------------------------------------------------------- acceptor
Min(a, b) == IF a < b THEN a ELSE b

RECURSIVE Pow2(_)
Pow2(n) == IF n = 0 THEN 1 ELSE 2 * Pow2(n - 1)

InitialDelay == 10 * ACCEPT_MIN_SLEEP

\* The doubling without its cap.
NextDelayNoCap(d) == 2 * d

\* tmpDelay *= 2; if tmpDelay > ACCEPT_MAX_SLEEP { tmpDelay = ACCEPT_MAX_SLEEP }
NextDelay(d) == IF 2 * d > ACCEPT_MAX_SLEEP THEN ACCEPT_MAX_SLEEP ELSE 2 * d

NumAccepted == Cardinality({c \in Conns : hpc[c] # "none"})

\* net.Listen failed: log, time.Sleep(1 * time.Second), retry.
ListenFail ==
    /\ ~crashed
    /\ lpc = "listen"
    /\ bindFails < MaxBindRetries
    /\ bindFails' = bindFails + 1
    /\ UNCHANGED <<lpc, tmpDelay, sleeps, otherErrs, connVars, clientVars, clients,
                   queue, workerVars, loopVars, crashed, scn>>

\* net.Listen succeeded: break, tmpDelay := 10 * ACCEPT_MIN_SLEEP.
ListenOk ==
    /\ ~crashed
    /\ lpc = "listen"
    /\ lpc' = "accept"
    /\ tmpDelay' = InitialDelay
    /\ bindFails' = 0
    /\ UNCHANGED <<sleeps, otherErrs, connVars, clientVars, clients,
                   queue, workerVars, loopVars, crashed, scn>>

\* l.Accept() returned a temporary net.Error: sleep tmpDelay, double it, cap it.
AcceptTemporaryError ==
    /\ ~crashed
    /\ lpc = "accept"
    /\ Len(sleeps) < MaxRun
    /\ sleeps' = Append(sleeps, tmpDelay)
    /\ tmpDelay' = NextDelay(tmpDelay)
    /\ UNCHANGED <<lpc, bindFails, otherErrs, connVars, clientVars, clients,
                   queue, workerVars, loopVars, crashed, scn>>

\* l.Accept() returned any other error: log, continue.
AcceptOtherError ==
    /\ ~crashed
    /\ lpc = "accept"
    /\ otherErrs < MaxOtherErrs
    /\ otherErrs' = otherErrs + 1
    /\ UNCHANGED <<lpc, tmpDelay, sleeps, bindFails, connVars, clientVars, clients,
                   queue, workerVars, loopVars, crashed, scn>>

\* The delay stored after a connection was accepted.
ResetDelay == ACCEPT_MIN_SLEEP

\* l.Accept() returned a connection: tmpDelay = ACCEPT_MIN_SLEEP; go b.handleConnection(conn).
\* Connections are numbered in the order they are accepted.
Accept(c) ==
    /\ ~crashed
    /\ lpc = "accept"
    /\ hpc[c] = "none"
    /\ c = NumAccepted + 1
    /\ c <= scn.conns
    /\ tmpDelay' = ResetDelay
    /\ sleeps' = <<>>
    /\ otherErrs' = 0
    /\ hpc' = [hpc EXCEPT ![c] = "connect"]
    /\ UNCHANGED <<lpc, bindFails, connect, found, herr, wire, tcp, connCloses,
                   clientVars, clients, queue, workerVars, loopVars, crashed, scn>>

\* ------------------------------------------------------------ handshake
\* What packets.ReadPacket can hand to handleConnectPacket.
FirstPackets == {"read error", "nil packet", "not connect", "connect"}

\* The identifiers the CONNECT of connection c may carry: its own, or also
\* that of any connection accepted before it.
ConnectIds(c) == IF scn.fresh THEN {c} ELSE 1..c

\* handleConnectPacket: read one packet; anything but a CONNECT ends the
\* handshake with an error (handleConnection logs it and returns).
handleConnectPacket(c) ==
    /\ ~crashed
    /\ hpc[c] = "connect"
    /\ \E first \in scn.firsts :
          IF first = "connect"
          THEN \E id \in ConnectIds(c), clean \in scn.cleans, rc \in scn.codes :
                  /\ connect' = [connect EXCEPT ![c] =
                                    [id |-> id, CleanSession |-> clean, rc |-> rc]]
                  /\ hpc' = [hpc EXCEPT ![c] = "connack"]
                  /\ herr' = herr
          ELSE /\ herr' = [herr EXCEPT ![c] = first]
               /\ hpc' = [hpc EXCEPT ![c] = "done"]
               /\ connect' = connect
    /\ UNCHANGED <<acceptVars, found, wire, tcp, connCloses, clientVars, clients,
                   queue, workerVars, loopVars, crashed, scn>>

\* SessionPresent with the negation forgotten.
SessionPresentSame(cp) == cp.CleanSession

\* connack.SessionPresent = !connect.CleanSession
SessionPresent(cp) == ~cp.CleanSession

Connack(sp, rc) == [type |-> "CONNACK", SessionPresent |-> sp, ReturnCode |-> rc]

\* The return code of the CONNACK once LoadClient found the identifier.
DuplicateCode == ErrRefusedNotAuthorised

\* handleConnackPacket.  ok1, ok2: whether the first and the second
\* connack.Write(conn) succeed (a write fails when the peer is gone).
handleConnackPacket(c) ==
    /\ ~crashed
    /\ hpc[c] = "connack"
    /\ \E ok1, ok2 \in scn.writes :
        LET cp == connect[c]
            sp == SessionPresent(cp)
            dup == LoadClient(clients, cp.id)
            rc2 == IF dup THEN DuplicateCode ELSE cp.rc
            first == IF cp.rc # Accepted THEN <<Connack(sp, cp.rc)>>
                     ELSE IF dup THEN <<Connack(sp, rc2)>>
                     ELSE <<>>
            second == <<Connack(sp, rc2)>>
        IN  IF cp.rc # Accepted
            THEN \* write the refusal, return "connect not accepted"
                 /\ wire' = [wire EXCEPT ![c] = IF ok1 THEN @ \o first ELSE @]
                 /\ herr' = [herr EXCEPT ![c] =
                                IF ok1 THEN "connect not accepted" ELSE "write error"]
                 /\ hpc' = [hpc EXCEPT ![c] = "done"]
                 /\ found' = found
            ELSE /\ found' = [found EXCEPT ![c] = dup]
                 /\ IF dup /\ ~ok1
                    THEN \* the NotAuthorised CONNACK could not be written
                         /\ wire' = wire
                         /\ herr' = [herr EXCEPT ![c] = "write error"]
                         /\ hpc' = [hpc EXCEPT ![c] = "done"]
                    ELSE IF ~ok2
                    THEN /\ wire' = [wire EXCEPT ![c] = @ \o first]
                         /\ herr' = [herr EXCEPT ![c] = "write error"]
                         /\ hpc' = [hpc EXCEPT ![c] = "done"]
                    ELSE \* "success": the last connack.Write, return nil
                         /\ wire' = [wire EXCEPT ![c] = @ \o first \o second]
                         /\ herr' = herr
                         /\ hpc' = [hpc EXCEPT ![c] = "add"]
    /\ UNCHANGED <<acceptVars, connect, tcp, connCloses, clientVars, clients,
                   queue, workerVars, loopVars, crashed, scn>>

\* A client built in the state Close leaves it in.
NewClientStatusClosed == Disconnected

\* newClient: status: Connected
NewClientStatus == Connected

\* newClient(conn, b, connect.ClientIdentifier); b.AddClient(c); then c.loop().
handleConnection(c) ==
    /\ ~crashed
    /\ hpc[c] = "add"
    /\ status' = [status EXCEPT ![c] = NewClientStatus]
    /\ sconn' = [sconn EXCEPT ![c] = "conn"]
    /\ publishOnly' = [publishOnly EXCEPT ![c] = capability[c]]
    /\ clients' = AddClient(clients, c)
    /\ hpc' = [hpc EXCEPT ![c] = "select"]
    /\ UNCHANGED <<acceptVars, connect, found, herr, wire, tcp, connCloses,
                   cancels, capability, mu, deletes, closed,
                   queue, workerVars, loopVars, crashed, scn>>

\* ---------------------------------------------------------- worker pool
\* The pool of the repository (package pool): one FIFO queue per worker, a
\* key is hashed to its slot, the worker of a slot runs its thunks one at
\* a time in submission order, Submit blocks while the queue is full.
Hash(key) == key % NumSlots
HasRoom(q, key) == Len(q[Hash(key)]) < QueueCap
Submit(q, key, m) == [q EXCEPT ![Hash(key)] = Append(@, m)]

\* A key that differs from message to message of one client.
SubmitKeyBySeq(c, seq) == seq

\* The key of b.wpool.Submit(string(msg.client.id), ...)
SubmitKey(c, seq) == IdOf(c)

\* Broker.SubmitWork
SubmitWork(q, m) == Submit(q, m.key, m)

\* ------------------------------------------------------------ read loop
\* The control packets a peer sends after the handshake.  PUBACK stands for
\* the types ProcessMessage accepts silently.
InboundPackets ==
    {Pkt("PUBLISH", 0, 0), Pkt("SUBSCRIBE", 1, 2), Pkt("PINGREQ", 0, 0),
     Pkt("DISCONNECT", 0, 0), Pkt("PUBACK", 0, 0)}

\* DisconnectedPacket
DisconnectedPacket == Pkt("DISCONNECT", 0, 0)

Message(c, p, syn) ==
    [client |-> c, pkt |-> p, seq |-> nread[c] + 1,
     key |-> SubmitKey(c, nread[c] + 1), synthetic |-> syn]

\* select { case <-c.ctx.Done(): return; default: ... }
LoopSelect(c) ==
    /\ ~crashed
    /\ hpc[c] = "select"
    /\ hpc' = [hpc EXCEPT ![c] = IF cancels[c] > 0 THEN "done" ELSE "eval"]
    /\ UNCHANGED <<acceptVars, connect, found, herr, wire, tcp, connCloses,
                   clientVars, clients, queue, workerVars, loopVars, crashed, scn>>

\* The argument of packets.ReadPacket(c.conn) is evaluated.  On a nil conn
\* ReadPacket calls Read on a nil io.Reader: a panic nothing recovers.
LoopEval(c) ==
    /\ ~crashed
    /\ hpc[c] = "eval"
    /\ IF sconn[c] = "nil"
       THEN /\ crashed' = TRUE
            /\ hpc' = [hpc EXCEPT ![c] = "done"]
       ELSE /\ crashed' = crashed
            /\ hpc' = [hpc EXCEPT ![c] = "read"]
    /\ UNCHANGED <<acceptVars, connect, found, herr, wire, tcp, connCloses,
                   clientVars, clients, queue, workerVars, loopVars, scn>>

\* ReadPacket returned a packet: wrap it into a Message, SubmitWork, loop.
LoopPacket(c) ==
    /\ ~crashed
    /\ hpc[c] = "read"
    /\ tcp[c] = "open"
    /\ readsLeft > 0
    /\ \E p \in scn.packets :
        LET m == Message(c, p, FALSE)
        IN  /\ HasRoom(queue, m.key)
            /\ queue' = SubmitWork(queue, m)
    /\ nread' = [nread EXCEPT ![c] = @ + 1]
    /\ readsLeft' = readsLeft - 1
    /\ hpc' = [hpc EXCEPT ![c] = "select"]
    /\ UNCHANGED <<acceptVars, connect, found, herr, wire, tcp, connCloses,
                   clientVars, clients, workerVars, readFailed, lastStarted,
                   completed, crashed, scn>>

\* ReadPacket returned an error: the connection was closed under the read,
\* or the peer went away (one of the events the peers cause).  Submit
\* DisconnectedPacket for this client, return.
LoopError(c) ==
    /\ ~crashed
    /\ hpc[c] = "read"
    /\ tcp[c] = "open" => readsLeft > 0
    /\ LET m == Message(c, DisconnectedPacket, TRUE)
       IN  /\ HasRoom(queue, m.key)
           /\ queue' = SubmitWork(queue, m)
    /\ nread' = [nread EXCEPT ![c] = @ + 1]
    /\ readsLeft' = IF tcp[c] = "open" THEN readsLeft - 1 ELSE readsLeft
    /\ readFailed' = [readFailed EXCEPT ![c] = TRUE]
    /\ hpc' = [hpc EXCEPT ![c] = "done"]
    /\ UNCHANGED <<acceptVars, connect, found, herr, wire, tcp, connCloses,
                   clientVars, clients, workerVars, lastStarted,
                   completed, crashed, scn>>

\* ------------------------------------------------------------- workers
NoFrame == [type |-> "none"]
PublishFrame(m) == [type |-> "PUBLISH", from |-> m.client, seq |-> m.seq]
PingrespPacket == [type |-> "PINGRESP"]

\* A SUBACK whose MessageID was left at its zero value.
SubackNoEcho(p) ==
    [type |-> "SUBACK", MessageID |-> 0, ReturnCodes |-> [i \in 1..p.Topics |-> 0]]

\* ProcessSubscribe: the SUBACK echoes MessageID and holds one 0 (QoS 0
\* granted) per requested topic.
Suback(p) ==
    [type |-> "SUBACK", MessageID |-> p.MessageID,
     ReturnCodes |-> [i \in 1..p.Topics |-> 0]]

\* The fan-out filter without its c.id == other.id test.
SkipPeerNoSelf(c, other) == publishOnly[other]

\* The fan-out filter without its other.publishOnly test.
SkipPeerNoFlag(c, other) == IdOf(c) = IdOf(other)

\* ProcessPublish: the peers the fan-out passes over.
SkipPeer(c, other) == IdOf(c) = IdOf(other) \/ publishOnly[other]

\* The clients Close had already deregistered.
TornDown == {c \in Conns : deletes[c] > 0}

NoFan == [reg |-> {}, failed |-> {}, calls |-> 0]

SetWorker(w, pc, msg, todo, target, frame, via, seen, sent, gone, fan) ==
    /\ wpc' = [wpc EXCEPT ![w] = pc]
    /\ wmsg' = [wmsg EXCEPT ![w] = msg]
    /\ wtodo' = [wtodo EXCEPT ![w] = todo]
    /\ wtarget' = [wtarget EXCEPT ![w] = target]
    /\ wframe' = [wframe EXCEPT ![w] = frame]
    /\ wvia' = [wvia EXCEPT ![w] = via]
    /\ wseen' = [wseen EXCEPT ![w] = seen]
    /\ wsent' = [wsent EXCEPT ![w] = sent]
    /\ wgone' = [wgone EXCEPT ![w] = gone]
    /\ wfan' = [wfan EXCEPT ![w] = fan]

\* The thunk returned: the worker is free for the next one of its queue.
Finish(w, m) ==
    /\ SetWorker(w, "idle", NoMsg, {}, 0, NoFrame, "", {}, {}, {}, NoFan)
    /\ completed' = [completed EXCEPT ![m.client] = @ + 1]

\* c.Send(frame) is called on behalf of message m.
CallSend(w, m, t, frame, todo, seen, sent, gone) ==
    /\ SetWorker(w, "s_status", m, todo, t, frame, "", seen, sent \cup {t}, gone,
                 [wfan[w] EXCEPT !.calls = @ + 1])
    /\ completed' = completed

\* The callback of Range with the negation of a failure as its result.
KeepGoingIfOk(err) == ~err

\* EachClient: if err := fn(client); err != nil { log }; return true // next
KeepGoing(err) == TRUE

\* Send returned, with an error or without: the fan-out goes on with the
\* next peer if the callback of Range says so, any other handler is over.
SendReturn(w, err) ==
    IF wmsg[w].pkt.type = "PUBLISH"
    THEN /\ SetWorker(w, "range", wmsg[w], IF KeepGoing(err) THEN wtodo[w] ELSE {},
                      0, NoFrame, "", wseen[w], wsent[w], wgone[w],
                      IF err THEN [wfan[w] EXCEPT !.failed = @ \cup {wtarget[w]}]
                             ELSE wfan[w])
         /\ completed' = completed
    ELSE Finish(w, wmsg[w])

\* The worker of slot w takes the head of its queue and runs ProcessMessage
\* up to the handler's first step.
ProcessMessage(w) ==
    /\ ~crashed
    /\ wpc[w] = "idle"
    /\ queue[w] # <<>>
    /\ LET m == Head(queue[w])
           c == m.client
           t == m.pkt.type
       IN  /\ queue' = [queue EXCEPT ![w] = Tail(@)]
           /\ lastStarted' = [lastStarted EXCEPT ![c] = m.seq]
           /\ CASE t = "PUBLISH" ->
                     \* ProcessPublish: EachClient ranges over the entries of the map
                     /\ SetWorker(w, "range", m, Keys(clients), 0, NoFrame, "", {}, {},
                                  TornDown, [NoFan EXCEPT !.reg = Vals(clients)])
                     /\ completed' = completed
                [] t = "SUBSCRIBE" ->
                     IF status[c] = Disconnected
                     THEN Finish(w, m)
                     ELSE CallSend(w, m, c, Suback(m.pkt), {}, {}, {}, {})
                [] t = "PINGREQ" ->
                     IF status[c] = Disconnected
                     THEN Finish(w, m)
                     ELSE CallSend(w, m, c, PingrespPacket, {}, {}, {}, {})
                [] t = "DISCONNECT" ->
                     /\ SetWorker(w, "c_status", m, {}, c, NoFrame, "msg", {}, {}, {}, NoFan)
                     /\ completed' = completed
                [] OTHER -> Finish(w, m)
    /\ UNCHANGED <<acceptVars, connVars, clientVars, clients, nread, readFailed,
                   readsLeft, crashed, scn>>

\* EachClient / sync.Map.Range calls fn on the next entry: an entry deleted
\* since the range began is passed over, a replaced one is seen as it is now.
EachClient(w) ==
    /\ ~crashed
    /\ wpc[w] = "range"
    /\ \E k \in wtodo[w] :
        LET m == wmsg[w]
            todo == wtodo[w] \ {k}
            here == k \in Keys(clients)
            other == Load(clients, k)
        IN  IF here /\ ~SkipPeer(m.client, other)
            THEN CallSend(w, m, other, PublishFrame(m), todo, wseen[w] \cup {other},
                          wsent[w], wgone[w])
            ELSE /\ SetWorker(w, "range", m, todo, 0, NoFrame, "",
                              IF here THEN wseen[w] \cup {other} ELSE wseen[w],
                              wsent[w], wgone[w], wfan[w])
                 /\ completed' = completed
    /\ UNCHANGED <<acceptVars, connVars, clientVars, clients, queue, nread, readFailed,
                   readsLeft, lastStarted, crashed, scn>>

\* The range is over: ProcessPublish returns.
EachClientDone(w) ==
    /\ ~crashed
    /\ wpc[w] = "range"
    /\ wtodo[w] = {}
    /\ Finish(w, wmsg[w])
    /\ UNCHANGED <<acceptVars, connVars, clientVars, clients, queue, nread, readFailed,
                   readsLeft, lastStarted, crashed, scn>>

\* ----------------------------------------------------------- client.Send
\* if c.status == Disconnected { return nil }
SendStatus(w) ==
    /\ ~crashed
    /\ wpc[w] = "s_status"
    /\ IF status[wtarget[w]] = Disconnected
       THEN SendReturn(w, FALSE)
       ELSE /\ wpc' = [wpc EXCEPT ![w] = "s_conn"]
            /\ UNCHANGED <<wmsg, wtodo, wtarget, wframe, wvia, wseen, wsent, wgone, wfan,
                           completed>>
    /\ UNCHANGED <<acceptVars, connVars, clientVars, clients, queue, nread, readFailed,
                   readsLeft, lastStarted, crashed, scn>>

\* if c.conn == nil { c.Close(); return errors.New("connection lost") }
SendConn(w) ==
    /\ ~crashed
    /\ wpc[w] = "s_conn"
    /\ wpc' = [wpc EXCEPT ![w] = IF sconn[wtarget[w]] = "nil" THEN "c_status" ELSE "s_lock"]
    /\ wvia' = [wvia EXCEPT ![w] = IF sconn[wtarget[w]] = "nil" THEN "send" ELSE @]
    /\ UNCHANGED <<acceptVars, connVars, clientVars, clients, queue, wmsg, wtodo, wtarget,
                   wframe, wseen, wsent, wgone, wfan, loopVars, crashed, scn>>

\* Send going on to the write without waiting for c.mu.
SendLockFree(w) ==
    /\ ~crashed
    /\ wpc[w] = "s_lock"
    /\ mu' = [mu EXCEPT ![wtarget[w]] = w]
    /\ wpc' = [wpc EXCEPT ![w] = "s_write"]
    /\ UNCHANGED <<acceptVars, connVars, status, sconn, cancels, publishOnly, capability,
                   deletes, closed, clients, queue, wmsg, wtodo, wtarget, wframe, wvia,
                   wseen, wsent, wgone, wfan, loopVars, crashed, scn>>

\* c.mu.Lock()
SendLock(w) ==
    /\ ~crashed
    /\ wpc[w] = "s_lock"
    /\ mu[wtarget[w]] = -1
    /\ mu' = [mu EXCEPT ![wtarget[w]] = w]
    /\ wpc' = [wpc EXCEPT ![w] = "s_write"]
    /\ UNCHANGED <<acceptVars, connVars, status, sconn, cancels, publishOnly, capability,
                   deletes, closed, clients, queue, wmsg, wtodo, wtarget, wframe, wvia,
                   wseen, wsent, wgone, wfan, loopVars, crashed, scn>>

\* err := packet.Write(c.conn); c.mu.Unlock(); return err.
\* On a nil c.conn Write panics: the deferred recover logs it and Send
\* returns without reaching c.mu.Unlock().  On a closed connection, or when
\* the peer is gone (ok = FALSE), Write returns an error and writes nothing.
SendWrite(w) ==
    /\ ~crashed
    /\ wpc[w] = "s_write"
    /\ LET t == wtarget[w]
       IN  IF sconn[t] = "nil"
           THEN /\ mu' = mu
                /\ wire' = wire
                /\ SendReturn(w, FALSE)
           ELSE /\ mu' = [mu EXCEPT ![t] = -1]
                /\ \E ok \in scn.writes :
                      LET written == ok /\ tcp[t] = "open"
                      IN  /\ wire' = [wire EXCEPT ![t] =
                                         IF written THEN Append(@, wframe[w]) ELSE @]
                          /\ SendReturn(w, ~written)
    /\ UNCHANGED <<acceptVars, hpc, connect, found, herr, tcp, connCloses, status, sconn,
                   cancels, publishOnly, capability, deletes, closed, clients, queue,
                   nread, readFailed, readsLeft, lastStarted, crashed, scn>>

\* ---------------------------------------------------------- client.Close
\* Close returned to its caller: to Send (which returns "connection lost")
\* or to ProcessMessage.
CloseReturn(w) ==
    IF wvia[w] = "send"
    THEN /\ SendReturn(w, TRUE)
         /\ closed' = closed
    ELSE /\ Finish(w, wmsg[w])
         /\ closed' = [closed EXCEPT ![wtarget[w]] = @ + 1]

\* Close without its guard.
NeverClosed(t) == FALSE

\* if c.status == Disconnected { return }
AlreadyClosed(t) == status[t] = Disconnected

\* The guard of Close, then c.cancelFunc().
CloseStatus(w) ==
    /\ ~crashed
    /\ wpc[w] = "c_status"
    /\ IF AlreadyClosed(wtarget[w])
       THEN /\ CloseReturn(w)
            /\ cancels' = cancels
       ELSE /\ cancels' = [cancels EXCEPT ![wtarget[w]] = @ + 1]
            /\ wpc' = [wpc EXCEPT ![w] = "c_set"]
            /\ UNCHANGED <<wmsg, wtodo, wtarget, wframe, wvia, wseen, wsent, wgone, wfan,
                           completed, closed>>
    /\ UNCHANGED <<acceptVars, connVars, status, sconn, publishOnly, capability, mu,
                   deletes, clients, queue, nread, readFailed, readsLeft, lastStarted,
                   crashed, scn>>

\* Close going on without writing the status.
CloseSetSkip(w) ==
    /\ ~crashed
    /\ wpc[w] = "c_set"
    /\ wpc' = [wpc EXCEPT ![w] = "c_check"]
    /\ UNCHANGED <<acceptVars, connVars, clientVars, clients, queue, wmsg, wtodo, wtarget,
                   wframe, wvia, wseen, wsent, wgone, wfan, loopVars, crashed, scn>>

\* c.status = Disconnected
CloseSet(w) ==
    /\ ~crashed
    /\ wpc[w] = "c_set"
    /\ status' = [status EXCEPT ![wtarget[w]] = Disconnected]
    /\ wpc' = [wpc EXCEPT ![w] = "c_check"]
    /\ UNCHANGED <<acceptVars, connVars, sconn, cancels, publishOnly, capability, mu,
                   deletes, closed, clients, queue, wmsg, wtodo, wtarget, wframe, wvia,
                   wseen, wsent, wgone, wfan, loopVars, crashed, scn>>

\* if c.conn != nil {
CloseCheck(w) ==
    /\ ~crashed
    /\ wpc[w] = "c_check"
    /\ wpc' = [wpc EXCEPT ![w] = IF sconn[wtarget[w]] # "nil" THEN "c_close" ELSE "c_delete"]
    /\ UNCHANGED <<acceptVars, connVars, clientVars, clients, queue, wmsg, wtodo, wtarget,
                   wframe, wvia, wseen, wsent, wgone, wfan, loopVars, crashed, scn>>

\* c.conn.Close().  On a c.conn that became nil since the check the call
\* panics: Send's deferred recover catches it, nothing else does.
CloseConn(w) ==
    /\ ~crashed
    /\ wpc[w] = "c_close"
    /\ LET t == wtarget[w]
       IN  IF sconn[t] = "nil"
           THEN /\ UNCHANGED <<tcp, connCloses>>
                /\ IF wvia[w] = "send"
                   THEN /\ SendReturn(w, FALSE)
                        /\ crashed' = crashed
                   ELSE /\ crashed' = TRUE
                        /\ UNCHANGED <<workerVars, completed>>
           ELSE /\ tcp' = [tcp EXCEPT ![t] = "closed"]
                /\ connCloses' = [connCloses EXCEPT ![t] = @ + 1]
                /\ wpc' = [wpc EXCEPT ![w] = "c_nil"]
                /\ UNCHANGED <<wmsg, wtodo, wtarget, wframe, wvia, wseen, wsent, wgone, wfan,
                               completed, crashed, scn>>
    /\ UNCHANGED <<acceptVars, hpc, connect, found, herr, wire, clientVars, clients, queue,
                   nread, readFailed, readsLeft, lastStarted, scn>>

\* c.conn = nil
CloseNil(w) ==
    /\ ~crashed
    /\ wpc[w] = "c_nil"
    /\ sconn' = [sconn EXCEPT ![wtarget[w]] = "nil"]
    /\ wpc' = [wpc EXCEPT ![w] = "c_delete"]
    /\ UNCHANGED <<acceptVars, connVars, status, cancels, publishOnly, capability, mu,
                   deletes, closed, clients, queue, wmsg, wtodo, wtarget, wframe, wvia,
                   wseen, wsent, wgone, wfan, loopVars, crashed, scn>>

\* b.DeleteClient(c), and Close returns.
CloseDelete(w) ==
    /\ ~crashed
    /\ wpc[w] = "c_delete"
    /\ clients' = DeleteClient(clients, wtarget[w])
    /\ deletes' = [deletes EXCEPT ![wtarget[w]] = @ + 1]
    /\ CloseReturn(w)
    /\ UNCHANGED <<acceptVars, connVars, status, sconn, cancels, publishOnly, capability,
                   mu, queue, nread, readFailed, readsLeft, lastStarted, crashed, scn>>

\* ---------------------------------------------------------- specification
InitCommon ==
    /\ lpc = "listen"
    /\ tmpDelay = 0
    /\ sleeps = <<>>
    /\ bindFails = 0
    /\ otherErrs = 0
    /\ hpc = [c \in Conns |-> "none"]
    /\ connect = [c \in Conns |-> NoConnect]
    /\ found = [c \in Conns |-> FALSE]
    /\ herr = [c \in Conns |-> ""]
    /\ wire = [c \in Conns |-> <<>>]
    /\ tcp = [c \in Conns |-> "open"]
    /\ connCloses = [c \in Conns |-> 0]
    /\ status = [c \in Conns |-> 0]
    /\ sconn = [c \in Conns |-> "nil"]
    /\ cancels = [c \in Conns |-> 0]
    /\ publishOnly = [c \in Conns |-> FALSE]
    /\ mu = [c \in Conns |-> -1]
    /\ deletes = [c \in Conns |-> 0]
    /\ closed = [c \in Conns |-> 0]
    /\ clients = {}
    /\ queue = [w \in Slots |-> <<>>]
    /\ wpc = [w \in Slots |-> "idle"]
    /\ wmsg = [w \in Slots |-> NoMsg]
    /\ wtodo = [w \in Slots |-> {}]
    /\ wtarget = [w \in Slots |-> 0]
    /\ wframe = [w \in Slots |-> NoFrame]
    /\ wvia = [w \in Slots |-> ""]
    /\ wseen = [w \in Slots |-> {}]
    /\ wsent = [w \in Slots |-> {}]
    /\ wgone = [w \in Slots |-> {}]
    /\ wfan = [w \in Slots |-> NoFan]
    /\ nread = [c \in Conns |-> 0]
    /\ readFailed = [c \in Conns |-> FALSE]
    /\ readsLeft = scn.reads
    /\ lastStarted = [c \in Conns |-> 0]
    /\ completed = [c \in Conns |-> 0]
    /\ crashed = FALSE

Scenario(n, r, fresh, firsts, cleans, codes, writes, packets) ==
    [conns |-> n, reads |-> r, fresh |-> fresh, firsts |-> firsts, cleans |-> cleans,
     codes |-> codes, writes |-> writes, packets |-> packets]

\* The peers of the running broker: RuntimeConns connections, each with a
\* valid CONNECT that is answered, and MaxReads events after the handshakes.
RuntimeScenario ==
    Scenario(RuntimeConns, MaxReads, FALSE, {"connect"}, {TRUE}, {Accepted}, {TRUE}, InboundPackets)

\* The peers of the handshake: MaxConns connections with any first packet,
\* any CONNECT and CONNACK writes that may fail; afterwards they send
\* nothing, and MaxGone of them go away.
HandshakeScenario ==
    Scenario(MaxConns, MaxGone, FALSE, FirstPackets, BOOLEAN, ValidateCodes, BOOLEAN, {})

\* newClient sets no publishOnly: every client is built with the zero value.
Init ==
    /\ scn = RuntimeScenario
    /\ capability = [c \in Conns |-> FALSE]
    /\ InitCommon

InitHandshake ==
    /\ scn = HandshakeScenario
    /\ capability = [c \in Conns |-> FALSE]
    /\ InitCommon

\* The peers of a fan-out: MaxConns connections with valid CONNECTs, each
\* with an identifier of its own, writes that may fail (the peer is gone),
\* and MaxReads events, each a PUBLISH or a DISCONNECT sent or a peer going
\* away.
FanOutScenario ==
    Scenario(MaxConns, MaxReads, TRUE, {"connect"}, {TRUE}, {Accepted}, BOOLEAN,
             {Pkt("PUBLISH", 0, 0), Pkt("DISCONNECT", 0, 0)})

InitFanOut ==
    /\ scn = FanOutScenario
    /\ capability = [c \in Conns |-> FALSE]
    /\ InitCommon

\* SUBSCRIBE packets with different MessageIDs and numbers of topics.
SubscribePackets == {Pkt("SUBSCRIBE", 1, 2), Pkt("SUBSCRIBE", 2, 1), Pkt("SUBSCRIBE", 3, 0)}

\* The peers of subscribers: RuntimeConns connections with valid CONNECTs,
\* writes that may fail, and MaxReads events: a SUBSCRIBE, a PUBLISH or a
\* DISCONNECT sent, or a peer going away.
SubscribeScenario ==
    Scenario(RuntimeConns, MaxReads, FALSE, {"connect"}, {TRUE}, {Accepted}, BOOLEAN,
             SubscribePackets \cup {Pkt("PUBLISH", 0, 0), Pkt("DISCONNECT", 0, 0)})

InitSubscribe ==
    /\ scn = SubscribeScenario
    /\ capability = [c \in Conns |-> FALSE]
    /\ InitCommon

\* publishOnly as an input: each client is built with either value.
InitCapability ==
    /\ scn = RuntimeScenario
    /\ capability \in {f \in [Conns -> BOOLEAN] : \A c \in Conns : c > RuntimeConns => ~f[c]}
    /\ InitCommon

CloseNext(w) ==
    \/ CloseStatus(w)
    \/ CloseSet(w)
    \/ CloseCheck(w)
    \/ CloseConn(w)
    \/ CloseNil(w)
    \/ CloseDelete(w)

SendNext(w) ==
    \/ SendStatus(w)
    \/ SendConn(w)
    \/ SendLock(w)
    \/ SendWrite(w)

WorkerNext(w) ==
    \/ ProcessMessage(w)
    \/ EachClient(w)
    \/ EachClientDone(w)
    \/ SendNext(w)
    \/ CloseNext(w)

HandshakeStep(c) ==
    \/ Accept(c)
    \/ handleConnectPacket(c)
    \/ handleConnackPacket(c)
    \/ handleConnection(c)

\* The broker with a listener whose Accept returns connections only.
Next ==
    \/ ListenOk
    \/ \E c \in Conns : HandshakeStep(c) \/ LoopSelect(c) \/ LoopEval(c)
                           \/ LoopPacket(c) \/ LoopError(c)
    \/ \E w \in Slots : WorkerNext(w)

Spec == Init /\ [][Next]_vars

SpecCapability == InitCapability /\ [][Next]_vars

\* The broker with three peers that publish and disconnect.
SpecFanOut == InitFanOut /\ [][Next]_vars

\* The broker with peers that subscribe.
SpecSubscribe == InitSubscribe /\ [][Next]_vars

\* The broker whose peers send nothing after CONNECT: no handler sends.
HandshakeNext ==
    \/ ListenOk
    \/ \E c \in Conns : HandshakeStep(c) \/ LoopSelect(c) \/ LoopEval(c) \/ LoopError(c)
    \/ \E w \in Slots : ProcessMessage(w) \/ CloseNext(w)

SpecHandshake == InitHandshake /\ [][HandshakeNext]_vars

\* The acceptor alone: StartClientListening with every outcome of
\* net.Listen and l.Accept.
AcceptorNext ==
    \/ ListenFail
    \/ ListenOk
    \/ AcceptTemporaryError
    \/ AcceptOtherError
    \/ \E c \in Conns : Accept(c)

SpecAccept == InitHandshake /\ [][AcceptorNext]_vars

\* Every worker goroutine of the pool keeps running.
FairSpec == Spec /\ \A w \in Slots : WF_vars(WorkerNext(w))

\* ============================================================ properties
LoopPcs == {"select", "eval", "read"}

Frames(c, t) == {i \in 1..Len(wire[c]) : wire[c][i].type = t}

\* C1: once the handshake of a connection found its (valid) CONNECT's
\* identifier already registered, no session of that connection is ever
\* stored in the registry and no read loop is started for it.
C1_DuplicateRejected ==
    \A c \in Conns : found[c] => ~InRegistry(c) /\ hpc[c] \notin LoopPcs

\* C2: the registry holds at most one session under any identifier.
C2_RegistryUnique ==
    \A e1, e2 \in clients : e1.key = e2.key => e1 = e2

\* AddClient ran for an identifier whose first session is still Connected.
C2_Witness ==
    \E c, d \in Conns :
        /\ c # d
        /\ IdOf(c) = IdOf(d)
        /\ status[c] = Connected
        /\ status[d] = Connected
        /\ InRegistry(d)

\* C9: every CONNACK written with ReturnCode Accepted has SessionPresent
\* equal to the negation of the CONNECT's CleanSession, and is written only
\* when Validate returned Accepted and LoadClient did not find the identifier.
C9_SessionPresentLaw ==
    \A c \in Conns : \A i \in Frames(c, "CONNACK") :
        wire[c][i].ReturnCode = Accepted =>
            /\ wire[c][i].SessionPresent = ~connect[c].CleanSession
            /\ connect[c].rc = Accepted
            /\ ~found[c]

\* An accepted CONNACK for CleanSession = false, one for CleanSession =
\* true, and a connection whose identifier was found registered.
C9_Witness ==
    \E c, d, e \in Conns :
        /\ \E i \in Frames(c, "CONNACK") :
              wire[c][i].ReturnCode = Accepted /\ wire[c][i].SessionPresent
        /\ \E i \in Frames(d, "CONNACK") :
              wire[d][i].ReturnCode = Accepted /\ ~wire[d][i].SessionPresent
        /\ found[e] /\ wire[e] # <<>>

\* C3: the messages of one client are submitted under the key client.id in
\* the order they were read, and their handlers run one at a time in that
\* order: a handler starts only when every earlier message of the client
\* has completed; the DISCONNECT submitted on a read error is the last.
C3_AffinityOrdering ==
    /\ \A c \in Conns : lastStarted[c] \in {completed[c], completed[c] + 1}
    /\ \A w \in Slots : wpc[w] # "idle" =>
          /\ wmsg[w].key = IdOf(wmsg[w].client)
          /\ wmsg[w].seq = lastStarted[wmsg[w].client]
          /\ wmsg[w].seq = completed[wmsg[w].client] + 1
    /\ \A w \in Slots : \A i \in 1..Len(queue[w]) :
          LET m == queue[w][i]
          IN  /\ m.key = IdOf(m.client)
              /\ m.seq > lastStarted[m.client]
              /\ m.seq <= nread[m.client]
              /\ m.synthetic => m.seq = nread[m.client]
              /\ \A j \in 1..(i - 1) :
                    queue[w][j].client = m.client => queue[w][j].seq < m.seq
    /\ \A v, w \in Slots :
          (wpc[v] # "idle" /\ wpc[w] # "idle" /\ wmsg[v].client = wmsg[w].client) => v = w

\* A handler of a client is running while the DISCONNECT of its read error
\* waits behind it.
C3_Witness ==
    \E w \in Slots : \E i \in 1..Len(queue[w]) :
        /\ wpc[w] # "idle"
        /\ wpc[w] # "c_status"
        /\ queue[w][i].client = wmsg[w].client
        /\ queue[w][i].synthetic

\* C4: the fan-out of a PUBLISH invokes Send on no session whose id is the
\* publisher's, and no PUBLISH frame is written to such a session.
C4_NoSelfDelivery ==
    /\ \A w \in Slots : wmsg[w].pkt.type = "PUBLISH" =>
          \A t \in wsent[w] : IdOf(t) # IdOf(wmsg[w].client)
    /\ \A c \in Conns : \A i \in Frames(c, "PUBLISH") :
          IdOf(wire[c][i].from) # IdOf(c)

\* A fan-out came to its end: its callback was called on the publisher,
\* which got no Send, and on a peer, which got the frame.
C4_Witness ==
    \E w \in Slots : \E t \in Conns :
        /\ wmsg[w].pkt.type = "PUBLISH"
        /\ wtodo[w] = {}
        /\ wmsg[w].client \in wseen[w] \ wsent[w]
        /\ t \in wsent[w]
        /\ \E i \in Frames(t, "PUBLISH") : wire[t][i].from = wmsg[w].client

\* C5: the fan-out of a PUBLISH invokes Send on no session whose
\* publishOnly flag is set, and no PUBLISH frame is written to one.
C5_PublishOnlyExcluded ==
    /\ \A w \in Slots : wmsg[w].pkt.type = "PUBLISH" =>
          \A t \in wsent[w] : ~publishOnly[t]
    /\ \A c \in Conns : Frames(c, "PUBLISH") # {} => ~publishOnly[c]

\* The callback of a fan-out was called on a publishOnly peer with another
\* id than the publisher's.
C5_Witness ==
    \E w \in Slots : \E t \in wseen[w] :
        /\ wmsg[w].pkt.type = "PUBLISH"
        /\ publishOnly[t]
        /\ IdOf(t) # IdOf(wmsg[w].client)
        /\ status[t] = Connected

\* C6: once a Close of the session's DISCONNECT handlers has returned, the
\* session is Disconnected, its conn is nil and closed once, cancel was
\* called once, DeleteClient once, and the session is not in the registry:
\* whatever the number of such calls that followed the first.
C6_CloseIdempotent ==
    \A t \in Conns : closed[t] >= 1 =>
        /\ status[t] = Disconnected
        /\ sconn[t] = "nil"
        /\ tcp[t] = "closed"
        /\ connCloses[t] = 1
        /\ cancels[t] = 1
        /\ deletes[t] = 1
        /\ ~InRegistry(t)

\* Two Close calls on one session have returned, one after the other.
C6_Witness ==
    \E t \in Conns : closed[t] >= 2

Writers(t) == {w \in Slots : wpc[w] = "s_write" /\ wtarget[w] = t}

\* C7: at most one goroutine at a time is between c.mu.Lock() and
\* c.mu.Unlock() of a session, where packet.Write(c.conn) is.
C7_SendSerialized ==
    \A t \in Conns :
        /\ Cardinality(Writers(t)) <= 1
        /\ \A w \in Writers(t) : mu[t] = w

\* One worker is writing to a session while another one, in Send on the
\* same session, waits for the lock.
C7_Witness ==
    \E v, w \in Slots :
        /\ wpc[v] = "s_write"
        /\ wpc[w] = "s_lock"
        /\ wtarget[v] = wtarget[w]

\* The delay the first temporary error of the current run sleeps: ten times
\* the base before any connection was accepted, the base after one was.
RunStart == IF NumAccepted = 0 THEN InitialDelay ELSE ACCEPT_MIN_SLEEP

\* C8 as stated: in every run of temporary accept errors, after bind or
\* after a successful accept, the k-th error (k = 0, 1, ...) sleeps
\* min(10 * base * 2^k, cap); a successful accept stores the base; an error
\* that is not temporary neither sleeps nor changes the stored delay.
C8_BackoffLaw ==
    lpc = "accept" =>
        /\ \A k \in 1..Len(sleeps) :
              sleeps[k] = Min(10 * ACCEPT_MIN_SLEEP * Pow2(k - 1), ACCEPT_MAX_SLEEP)
        /\ (NumAccepted > 0 /\ sleeps = <<>>) => tmpDelay = ACCEPT_MIN_SLEEP

\* C8: before the first accepted connection the k-th temporary error since
\* bind (k = 0, 1, ...) sleeps min(10 * base * 2^k, cap); after a successful
\* accept the k-th temporary error since that accept sleeps
\* min(base * 2^k, cap); the stored delay is the sleep of the next temporary
\* error, so that a successful accept stores the base and an error that is
\* not temporary neither sleeps nor changes the stored delay.
C8_BackoffLawAmended ==
    lpc = "accept" =>
        /\ \A k \in 1..Len(sleeps) :
              sleeps[k] = Min(RunStart * Pow2(k - 1), ACCEPT_MAX_SLEEP)
        /\ tmpDelay = Min(RunStart * Pow2(Len(sleeps)), ACCEPT_MAX_SLEEP)
        /\ (NumAccepted > 0 /\ sleeps = <<>>) => tmpDelay = ACCEPT_MIN_SLEEP

\* After an accepted connection, a run of temporary errors long enough to
\* reach the cap twice, with errors that are not temporary in between.
C8_Witness ==
    /\ NumAccepted > 0
    /\ otherErrs > 0
    /\ Len(sleeps) = MaxRun
    /\ sleeps[1] = ACCEPT_MIN_SLEEP
    /\ sleeps[MaxRun - 1] = ACCEPT_MAX_SLEEP
    /\ sleeps[MaxRun] = ACCEPT_MAX_SLEEP

\* The DISCONNECT messages of read errors of session c that wait in a queue
\* or are in the hands of a worker.
SyntheticPending(c) ==
    {p \in Slots \X (0..QueueCap) :
        IF p[2] = 0
        THEN wpc[p[1]] # "idle" /\ wmsg[p[1]].client = c /\ wmsg[p[1]].synthetic
        ELSE /\ p[2] <= Len(queue[p[1]])
             /\ queue[p[1]][p[2]].client = c
             /\ queue[p[1]][p[2]].synthetic}

\* The session is Disconnected and the registry does not hold it.
Removed(c) == status[c] = Disconnected /\ ~InRegistry(c)

\* When the read of a session failed, its loop has returned after
\* submitting one DISCONNECT, the last message of the session.
C10_OneDisconnect ==
    \A c \in Conns : readFailed[c] =>
        /\ hpc[c] = "done"
        /\ Cardinality(SyntheticPending(c)) = (IF completed[c] < nread[c] THEN 1 ELSE 0)

\* A fan-out that started after a session was removed from the registry
\* calls Send on none of the removed sessions, and on every peer handed to
\* its callback whose id is not the publisher's and that is not publishOnly.
C10_FanOutAfterRemoval ==
    \A w \in Slots : wmsg[w].pkt.type = "PUBLISH" =>
        /\ wsent[w] \cap wgone[w] = {}
        /\ \A t \in wseen[w] :
              SkipPeer(wmsg[w].client, t) \/ t \in wsent[w]

\* C10: when the read of a session fails, the loop submits one DISCONNECT
\* for it and returns, and with workers that keep running the session
\* eventually is Disconnected and out of the registry; a fan-out that starts
\* after that calls Send on none of the removed sessions and on every other
\* eligible peer.
C10_ReadErrorTeardown ==
    /\ []C10_OneDisconnect
    /\ \A c \in Conns : readFailed[c] ~> Removed(c)
    /\ []C10_FanOutAfterRemoval

\* The same, for as long as the process is alive.
C10_TeardownUnlessCrashed ==
    \A c \in Conns : readFailed[c] ~> (Removed(c) \/ crashed)

\* The fan-out of worker w has visited every entry of its range.
RangeOver(w) == wmsg[w].pkt.type = "PUBLISH" /\ wpc[w] = "range" /\ wtodo[w] = {}

\* C11: when the fan-out of a PUBLISH from S is over, Send was invoked on
\* every session that was registered when it began and still is (a session
\* is stored once, so it was registered all along), whose id is not S.id and
\* that is not publishOnly, whatever the Sends on other peers returned; and
\* no session got more than one Send of the fan-out.
C11_FanOutComplete ==
    \A w \in Slots :
        /\ wmsg[w].pkt.type = "PUBLISH" => wfan[w].calls = Cardinality(wsent[w])
        /\ RangeOver(w) =>
              \A t \in wfan[w].reg :
                  (/\ InRegistry(t)
                   /\ IdOf(t) # IdOf(wmsg[w].client)
                   /\ ~publishOnly[t]) => t \in wsent[w]

\* A fan-out is over in which the Send on one peer returned an error and
\* two peers, both still registered, got their Send.
C11_Witness ==
    \E w \in Slots : \E t, u \in wsent[w] :
        /\ RangeOver(w)
        /\ t # u
        /\ t \in wfan[w].failed
        /\ u \notin wfan[w].failed
        /\ InRegistry(t)
        /\ InRegistry(u)
        /\ {t, u} \subseteq wfan[w].reg

\* C12: the status of a session starts at Connected; from Connected it goes
\* to Disconnected only, and once Disconnected it stays so, whatever step
\* of Close, Send, a handler or the read loop is taken.
C12_StatusMonotonic ==
    [][\A c \in Conns :
          /\ status[c] = 0 => status'[c] \in {0, Connected}
          /\ status[c] = Connected => status'[c] \in {Connected, Disconnected}
          /\ status[c] = Disconnected => status'[c] = Disconnected]_vars

\* Close is entered on a session that is Disconnected already, while its
\* read loop has not returned yet.
C12_Witness ==
    \E w \in Slots :
        /\ wpc[w] = "c_status"
        /\ status[wtarget[w]] = Disconnected
        /\ hpc[wtarget[w]] \in LoopPcs

\* C13: a handshake that found the identifier of its valid CONNECT in the
\* registry has written at most one CONNACK on its connection (one unless
\* the write failed), with ReturnCode ErrRefusedNotAuthorised, and has ended
\* with an error.
C13_OneRejection ==
    \A c \in Conns : found[c] =>
        /\ Cardinality(Frames(c, "CONNACK")) <= 1
        /\ \A i \in Frames(c, "CONNACK") : wire[c][i].ReturnCode = ErrRefusedNotAuthorised
        /\ herr[c] # ""
        /\ herr[c] # "write error" => Cardinality(Frames(c, "CONNACK")) = 1

\* A handshake that ended with an error built no client, stored nothing in
\* the registry and started no read loop.
C14_Isolated ==
    \A c \in Conns : herr[c] # "" =>
        /\ status[c] = 0
        /\ ~InRegistry(c)
        /\ hpc[c] = "done"
        /\ nread[c] = 0

\* C14: a handshake that ended with an error (first packet unreadable, nil
\* or not a CONNECT, a CONNECT that is not Accepted, a CONNACK write error)
\* built no client, stored nothing in the registry, started no read loop,
\* and the broker has closed the connection.
C14_FailureClosesConn ==
    /\ C14_Isolated
    /\ \A c \in Conns : herr[c] # "" => tcp[c] = "closed"

\* The handler of a SUBSCRIBE of a Connected session is in its one Send:
\* on that session, which stays Connected with its conn, and with a SUBACK
\* that echoes the MessageID and holds one 0 per topic.
C15_OneSuback ==
    \A w \in Slots : (wmsg[w].pkt.type = "SUBSCRIBE" /\ wpc[w] # "idle") =>
        LET c == wmsg[w].client
            p == wmsg[w].pkt
        IN  /\ wfan[w].calls = 1
            /\ wtarget[w] = c
            /\ wpc[w] \in {"s_status", "s_conn", "s_lock", "s_write"}
            /\ status[c] = Connected
            /\ sconn[c] = "conn"
            /\ wframe[w].type = "SUBACK"
            /\ wframe[w].MessageID = p.MessageID
            /\ Len(wframe[w].ReturnCodes) = p.Topics
            /\ \A i \in 1..p.Topics : wframe[w].ReturnCodes[i] = 0

\* A step of the handler of a SUBSCRIBE, its dispatch included, changes
\* neither the registry nor status, conn, ctx or publishOnly of a session,
\* and a SUBACK comes onto a connection only as the last step of the handler
\* of a SUBSCRIBE of its session, and is the SUBACK of that Send.
C15_SubscribeStep ==
    /\ \A w \in Slots :
          (wpc'[w] # wpc[w] /\ (wmsg[w].pkt.type = "SUBSCRIBE"
                                   \/ wmsg'[w].pkt.type = "SUBSCRIBE")) =>
              /\ clients' = clients
              /\ status' = status
              /\ sconn' = sconn
              /\ cancels' = cancels
              /\ publishOnly' = publishOnly
              /\ deletes' = deletes
    /\ \A c \in Conns :
          (wire'[c] # wire[c] /\ wire'[c][Len(wire'[c])].type = "SUBACK") =>
              \E w \in Slots :
                  /\ wmsg[w].pkt.type = "SUBSCRIBE"
                  /\ wmsg[w].client = c
                  /\ wpc[w] = "s_write"
                  /\ wpc'[w] = "idle"
                  /\ wire'[c] = Append(wire[c], wframe[w])

\* C15: for every SUBSCRIBE processed on a Connected session one SUBACK is
\* sent, on that session, with the MessageID of the SUBSCRIBE and one 0x00
\* per topic of it; processing it changes no registry or session state.
C15_SubscribeAck ==
    []C15_OneSuback /\ [][C15_SubscribeStep]_vars

\* The SUBACKs of two SUBSCRIBEs of one session, of different MessageIDs and
\* numbers of topics, are on its connection.
C15_Witness ==
    \E c \in Conns : \E i, j \in Frames(c, "SUBACK") :
        /\ i < j
        /\ wire[c][i].MessageID # wire[c][j].MessageID
        /\ Len(wire[c][i].ReturnCodes) # Len(wire[c][j].ReturnCodes)
        /\ completed[c] = 2

\* C16: a handler dispatched for a message of a session that is
\* Disconnected invokes Send on no session and enters no Close body.  The
\* messages of a session are handled one after the other, so the handler of
\* a session of which a Close has returned was dispatched after that Close.
C16_DisconnectedNoOp ==
    \A w \in Slots : (wpc[w] # "idle" /\ closed[wmsg[w].client] >= 1) =>
        /\ wsent[w] = {}
        /\ wfan[w].calls = 0
        /\ wpc[w] \in {"range", "c_status"}

\* The workers that are in Close on session t, and those of them past its
\* guard.
Closers(t) == {w \in Slots : wtarget[w] = t /\ wpc[w] \in
                  {"c_status", "c_set", "c_check", "c_close", "c_nil", "c_delete"}}
InCloseBody(t) == {w \in Closers(t) : wpc[w] # "c_status"}

\* C17: whatever the interleaving of the statements of the Close calls on a
\* session, at most one of them is past the guard; conn.Close is called at
\* most once and never on a nil conn, so no call panics; cancel and
\* DeleteClient are called at most once.
C17_ConcurrentCloseSafe ==
    \A t \in Conns :
        /\ Cardinality(InCloseBody(t)) <= 1
        /\ connCloses[t] <= 1
        /\ cancels[t] <= 1
        /\ deletes[t] <= 1
        /\ \A w \in Closers(t) : wpc[w] = "c_close" => sconn[t] # "nil"

\* The worker of the session is in the body of Close, past c.conn = nil,
\* while the worker of a fan-out has entered Close on the same session
\* through Send.
C17_Witness ==
    \E t \in Conns : \E v, w \in Closers(t) :
        /\ v # w
        /\ wpc[v] = "c_delete"
        /\ wvia[v] = "msg"
        /\ wpc[w] = "c_status"
        /\ wvia[w] = "send"

\* C18: the mutex of a session is held only by a worker that is in Send on
\* that session, between c.mu.Lock() and c.mu.Unlock(): Send never returns
\* with the mutex held, so a Send that waits for it is not kept waiting
\* forever.
C18_LockReleased ==
    \A t \in Conns : mu[t] # -1 =>
        /\ wpc[mu[t]] = "s_write"
        /\ wtarget[mu[t]] = t

\* C19: the b.DeleteClient(c) of a Close removes no registry entry but the
\* one whose value is the closing session.
C19_CloseRemovesOwnEntry ==
    [][\A w \in Slots :
          (wpc[w] = "c_delete" /\ wpc'[w] # "c_delete") =>
              \A e \in clients \ clients' : e.val = wtarget[w]]_vars

\* The handshake of connection c did not find its identifier and wrote a
\* CONNACK with ReturnCode Accepted.
AcceptedOn(c) ==
    /\ ~found[c]
    /\ \E i \in Frames(c, "CONNACK") : wire[c][i].ReturnCode = Accepted

\* C20: of two connections whose handshakes carry the same identifier and
\* are under way together, at most one gets a CONNACK with ReturnCode
\* Accepted and at most one gets a session with a running read loop.
C20_AtomicDuplicateCheck ==
    \A c, d \in Conns :
        (c # d /\ IdOf(c) # 0 /\ IdOf(c) = IdOf(d)) =>
            /\ ~(hpc[c] = "add" /\ hpc[d] = "add" /\ AcceptedOn(c) /\ AcceptedOn(d))
            /\ ~(/\ AcceptedOn(c) /\ AcceptedOn(d)
                 /\ hpc[c] \in LoopPcs /\ hpc[d] \in LoopPcs
                 /\ cancels[c] = 0 /\ cancels[d] = 0)

====
